---- MODULE Spec2Model ----
(***************************************************************************)
(* Model of src/lib.rs: two adapters around a trust-dns resolver.          *)
(*   CustomDnsResolver   (variant A) keeps the resolver in an Arc and      *)
(*                       moves a clone of the Arc into every task;         *)
(*   MyCustomDnsResolver (variant B) owns the resolver and hands out tasks *)
(*                       that borrow it for the lifetime 'a of &'a self.   *)
(* Both run do_resolve, an async fn with a single await (lookup_ip).       *)
(* A task is the boxed future returned by resolve; it is driven by .await, *)
(* which polls it until Ready and consumes it.                             *)
(***************************************************************************)
EXTENDS Integers, Sequences, FiniteSets

VARIABLES table, aliveA, aliveB, strong, dropsA, dropsB, tasks

vars == <<table, aliveA, aliveB, strong, dropsA, dropsB, tasks>>

\* at most this many resolve calls are made in one behaviour
MaxTasks == 2

----------------------------------------------------------------------------
\* Values

Hosts == {"n1", "n2"}

\* hyper::client::connect::dns::Name: a wrapper around the host string
Name == [host : Hosts]

\* lists of IpAddr a lookup can return, in the resolver's order
AddrLists == {<<>>, <<"ip1">>, <<"ip1", "ip2">>, <<"ip2", "ip1", "ip2">>}

\* ResolveError values of the wrapped resolver
ResolveErrors == {"nxdomain", "timeout"}

None == [tag |-> "None", val |-> <<>>]

Ok(v) == [tag |-> "Ok", val |-> v]

Err(e) == [tag |-> "Err", val |-> e]

\* what a read through a reference to a destroyed resolver would give
Dangling == [tag |-> "Dangling", val |-> <<>>]

\* Result<LookupIp, ResolveError> of one lookup
LookupOutcomes == {Ok(l) : l \in AddrLists} \cup {Err(e) : e \in ResolveErrors}

\* the wrapped TokioAsyncResolver: what it answers for each host
Resolvers == [Hosts -> LookupOutcomes]

----------------------------------------------------------------------------
\* Pure parts of do_resolve

\* name.as_str()
as_str(name) == name.host

\* resolver.lookup_ip(host), once the resolver has its answer
lookup_ip(live, host) == IF live THEN table[host] ELSE Dangling

\* the `?` operator's From conversion ResolveError -> Box<dyn StdError + Send + Sync>
box_err(e) == [boxed |-> e]

\* SocketAddr::from((s, port))
SocketAddr_from(s, port) == [ip |-> s, port |-> port]

\* variant of map_addrs: the addresses come out last to first
map_addrs_reversed(list) ==
    [i \in 1..Len(list) |-> SocketAddr_from(list[Len(list) + 1 - i], 0)]

\* list.into_iter().map(|s| SocketAddr::from((s, 0))), as the sequence it yields
map_addrs(list) == [i \in 1..Len(list) |-> SocketAddr_from(list[i], 0)]

\* variant of do_resolve_tail: a failed lookup becomes an empty address list
do_resolve_tail_fallback(r) ==
    IF r.tag = "Ok" THEN Ok(map_addrs(r.val))
    ELSE IF r.tag = "Err" THEN Ok(<<>>)
    ELSE r

\* the code of do_resolve after the await: `?` then Ok(Box::new(...))
do_resolve_tail(r) ==
    IF r.tag = "Ok" THEN Ok(map_addrs(r.val))
    ELSE IF r.tag = "Err" THEN Err(box_err(r.val))
    ELSE r

----------------------------------------------------------------------------
\* Tasks

\* the future returned by resolve, before its first poll
new_task(variant, name) ==
    [variant |-> variant, name |-> name, pc |-> "start", ready |-> None,
     result |-> None, lookups |-> 0, polled |-> FALSE, orphanPoll |-> FALSE]

Pending(t) == tasks[t].pc \in {"start", "lookup_ip"}

\* is the resolver a task of this variant refers to still in memory
ResolverLive(variant) == IF variant = "A" THEN dropsA = 0 ELSE dropsB = 0

OwnerAlive(variant) == IF variant = "A" THEN aliveA ELSE aliveB

\* variant of Arc_drop: the last holder leaves the resolver allocated
Arc_drop_leak ==
    /\ strong' = strong - 1
    /\ dropsA' = dropsA

\* Drop for Arc<TokioAsyncResolver>: the last holder destroys the resolver
Arc_drop ==
    /\ strong' = strong - 1
    /\ dropsA' = IF strong - 1 = 0 THEN dropsA + 1 ELSE dropsA

\* a task gives up what it holds of the resolver: variant A its Arc clone,
\* variant B only a borrow
release(variant) ==
    IF variant = "A" THEN Arc_drop ELSE UNCHANGED <<strong, dropsA>>

----------------------------------------------------------------------------
\* Construction: CustomDnsResolver::new and MyCustomDnsResolver::new, each
\* around a resolver with the same configuration

Init ==
    /\ table \in Resolvers
    /\ aliveA = TRUE
    /\ aliveB = TRUE
    /\ strong = 1
    /\ dropsA = 0
    /\ dropsB = 0
    /\ tasks = <<>>

\* variant of CustomDnsResolver_resolve: the task refers to the adapter's Arc
\* instead of holding a clone
CustomDnsResolver_resolve_noclone(name) ==
    /\ aliveA
    /\ Len(tasks) < MaxTasks
    /\ strong' = strong
    /\ tasks' = Append(tasks, new_task("A", name))
    /\ UNCHANGED <<table, aliveA, aliveB, dropsA, dropsB>>

\* <CustomDnsResolver as reqwest::dns::Resolve>::resolve
CustomDnsResolver_resolve(name) ==
    /\ aliveA
    /\ Len(tasks) < MaxTasks
    /\ strong' = strong + 1
    /\ tasks' = Append(tasks, new_task("A", name))
    /\ UNCHANGED <<table, aliveA, aliveB, dropsA, dropsB>>

\* variant of MyCustomDnsResolver_resolve: the lookup is issued by resolve itself
MyCustomDnsResolver_resolve_eager(name) ==
    /\ aliveB
    /\ Len(tasks) < MaxTasks
    /\ tasks' = Append(tasks, [new_task("B", name) EXCEPT !.pc = "lookup_ip", !.lookups = 1])
    /\ UNCHANGED <<table, aliveA, aliveB, strong, dropsA, dropsB>>

\* <MyCustomDnsResolver as MyResolve>::resolve
MyCustomDnsResolver_resolve(name) ==
    /\ aliveB
    /\ Len(tasks) < MaxTasks
    /\ tasks' = Append(tasks, new_task("B", name))
    /\ UNCHANGED <<table, aliveA, aliveB, strong, dropsA, dropsB>>

\* first poll of a task: do_resolve calls lookup_ip and polls the lookup,
\* which is either ready at once or suspends the task
poll_start(t) ==
    /\ t \in DOMAIN tasks
    /\ tasks[t].pc = "start"
    /\ LET k == tasks[t]
           issued == [k EXCEPT !.lookups = @ + 1, !.polled = TRUE,
                               !.orphanPoll = ~OwnerAlive(k.variant)]
       IN \/ /\ tasks' = [tasks EXCEPT ![t] = [issued EXCEPT !.pc = "lookup_ip"]]
             /\ UNCHANGED <<strong, dropsA>>
          \/ /\ tasks' = [tasks EXCEPT ![t] = [issued EXCEPT
                    !.pc = "done",
                    !.result = do_resolve_tail(
                        lookup_ip(ResolverLive(k.variant), as_str(k.name)))]]
             /\ release(k.variant)
    /\ UNCHANGED <<table, aliveA, aliveB, dropsB>>

\* variant of poll_resume: a failed lookup is issued once more
poll_resume_retry(t) ==
    /\ t \in DOMAIN tasks
    /\ tasks[t].pc = "lookup_ip"
    /\ LET k == tasks[t]
           seen == [k EXCEPT !.orphanPoll = @ \/ ~OwnerAlive(k.variant)]
       IN IF k.ready = None
          THEN /\ tasks' = [tasks EXCEPT ![t] = seen]
               /\ UNCHANGED <<strong, dropsA>>
          ELSE IF k.ready.tag = "Err" /\ k.lookups < 2
          THEN /\ tasks' = [tasks EXCEPT ![t] = [seen EXCEPT
                      !.ready = None, !.lookups = @ + 1]]
               /\ UNCHANGED <<strong, dropsA>>
          ELSE /\ tasks' = [tasks EXCEPT ![t] = [seen EXCEPT
                      !.pc = "done",
                      !.ready = None,
                      !.result = do_resolve_tail(k.ready)]]
               /\ release(k.variant)
    /\ UNCHANGED <<table, aliveA, aliveB, dropsB>>

\* variant of poll_resume: the answer is never picked up
poll_resume_stuck(t) ==
    /\ t \in DOMAIN tasks
    /\ tasks[t].pc = "lookup_ip"
    /\ tasks' = [tasks EXCEPT ![t].orphanPoll = @ \/ ~OwnerAlive(tasks[t].variant)]
    /\ UNCHANGED <<table, aliveA, aliveB, strong, dropsA, dropsB>>

\* a later poll of a suspended task: Pending while the lookup has no answer,
\* otherwise the rest of do_resolve runs and the task completes
poll_resume(t) ==
    /\ t \in DOMAIN tasks
    /\ tasks[t].pc = "lookup_ip"
    /\ LET k == tasks[t]
           seen == [k EXCEPT !.orphanPoll = @ \/ ~OwnerAlive(k.variant)]
       IN IF k.ready = None
          THEN /\ tasks' = [tasks EXCEPT ![t] = seen]
               /\ UNCHANGED <<strong, dropsA>>
          ELSE /\ tasks' = [tasks EXCEPT ![t] = [seen EXCEPT
                      !.pc = "done",
                      !.ready = None,
                      !.result = do_resolve_tail(k.ready)]]
               /\ release(k.variant)
    /\ UNCHANGED <<table, aliveA, aliveB, dropsB>>

\* variant of lookup_ip_ready: every answer is the one for the first call's name
lookup_ip_ready_shared(t) ==
    /\ t \in DOMAIN tasks
    /\ tasks[t].pc = "lookup_ip"
    /\ tasks[t].ready = None
    /\ tasks' = [tasks EXCEPT ![t].ready =
                    lookup_ip(ResolverLive(tasks[t].variant), as_str(tasks[1].name))]
    /\ UNCHANGED <<table, aliveA, aliveB, strong, dropsA, dropsB>>

\* the resolver finishes the lookup a suspended task is waiting for
lookup_ip_ready(t) ==
    /\ t \in DOMAIN tasks
    /\ tasks[t].pc = "lookup_ip"
    /\ tasks[t].ready = None
    /\ tasks' = [tasks EXCEPT ![t].ready =
                    lookup_ip(ResolverLive(tasks[t].variant), as_str(tasks[t].name))]
    /\ UNCHANGED <<table, aliveA, aliveB, strong, dropsA, dropsB>>

\* variant of drop_task: cancelling discards the answers other tasks wait for
drop_task_flush(t) ==
    /\ t \in DOMAIN tasks
    /\ Pending(t)
    /\ tasks' = [u \in DOMAIN tasks |->
                    IF u = t THEN [tasks[u] EXCEPT !.pc = "dropped", !.ready = None]
                    ELSE [tasks[u] EXCEPT !.ready = None]]
    /\ release(tasks[t].variant)
    /\ UNCHANGED <<table, aliveA, aliveB, dropsB>>

\* the caller drops a task that has not completed
drop_task(t) ==
    /\ t \in DOMAIN tasks
    /\ Pending(t)
    /\ tasks' = [tasks EXCEPT ![t].pc = "dropped", ![t].ready = None]
    /\ release(tasks[t].variant)
    /\ UNCHANGED <<table, aliveA, aliveB, dropsB>>

\* the CustomDnsResolver is dropped: its Arc field is dropped
drop_CustomDnsResolver ==
    /\ aliveA
    /\ aliveA' = FALSE
    /\ Arc_drop
    /\ UNCHANGED <<table, aliveB, dropsB, tasks>>

\* variant of borrow_ended: the task's lifetime is not tied to the adapter's
borrow_unchecked == TRUE

\* may the MyCustomDnsResolver be moved or dropped: not while a
\* MyResolving<'a> borrowed from it is still in use
borrow_ended == \A t \in DOMAIN tasks : tasks[t].variant = "B" => ~Pending(t)

\* the MyCustomDnsResolver is dropped, and its resolver with it
drop_MyCustomDnsResolver ==
    /\ aliveB
    /\ borrow_ended
    /\ aliveB' = FALSE
    /\ dropsB' = dropsB + 1
    /\ UNCHANGED <<table, aliveA, strong, dropsA, tasks>>

Next ==
    \/ \E name \in Name : CustomDnsResolver_resolve(name)
    \/ \E name \in Name : MyCustomDnsResolver_resolve(name)
    \/ \E t \in 1..MaxTasks : poll_start(t)
    \/ \E t \in 1..MaxTasks : poll_resume(t)
    \/ \E t \in 1..MaxTasks : lookup_ip_ready(t)
    \/ \E t \in 1..MaxTasks : drop_task(t)
    \/ drop_CustomDnsResolver
    \/ drop_MyCustomDnsResolver

Spec == Init /\ [][Next]_vars

\* the resolver configurations of LiveSpec: one host that resolves, one that fails
LiveResolvers ==
    {[h \in Hosts |-> IF h = "n1" THEN Ok(<<"ip1", "ip2">>) ELSE Err("nxdomain")]}

LiveInit == Init /\ table \in LiveResolvers

\* the executor keeps polling every task and the resolver answers every lookup
Fairness ==
    \A t \in 1..MaxTasks :
        /\ WF_vars(poll_start(t))
        /\ WF_vars(poll_resume(t))
        /\ WF_vars(lookup_ip_ready(t))

LiveSpec == LiveInit /\ [][Next]_vars /\ Fairness

----------------------------------------------------------------------------
\* Vocabulary of the properties

Tasks == DOMAIN tasks

Done(t) == tasks[t].pc = "done"

Dropped(t) == tasks[t].pc = "dropped"

\* what the resolver answers for the name a task was created with
Answer(t) == table[tasks[t].name.host]

\* result r is the outcome o with every address paired with port 0, or the
\* error of o
Yields(r, o) ==
    /\ r.tag = o.tag
    /\ r.tag \in {"Ok", "Err"}
    /\ r.tag = "Ok" =>
          /\ Len(r.val) = Len(o.val)
          /\ \A i \in 1..Len(o.val) : r.val[i].ip = o.val[i] /\ r.val[i].port = 0
    /\ r.tag = "Err" => r.val.boxed = o.val

PendingA == {t \in Tasks : tasks[t].variant = "A" /\ Pending(t)}

RECURSIVE SumLookups(_)
SumLookups(n) == IF n = 0 THEN 0 ELSE tasks[n].lookups + SumLookups(n - 1)

----------------------------------------------------------------------------
\* C1: a completed task for a name the resolver resolves to [a1..an] holds
\* exactly [(a1,0)..(an,0)]: same length, same order, every port 0.
C1_EndpointsInOrder ==
    \A t \in Tasks :
        (Done(t) /\ Answer(t).tag = "Ok") =>
            /\ tasks[t].result.tag = "Ok"
            /\ Len(tasks[t].result.val) = Len(Answer(t).val)
            /\ \A i \in 1..Len(Answer(t).val) :
                  /\ tasks[t].result.val[i].ip = Answer(t).val[i]
                  /\ tasks[t].result.val[i].port = 0

\* both variants have completed a lookup of the same three-address name
C1_Witness ==
    \E t \in Tasks, u \in Tasks :
        /\ tasks[t].variant = "A" /\ tasks[u].variant = "B"
        /\ Done(t) /\ Done(u)
        /\ tasks[t].name = tasks[u].name
        /\ Answer(t) = Ok(<<"ip2", "ip1", "ip2">>)
        /\ Len(tasks[t].result.val) = 3

\* C2: a completed task for a name whose lookup fails with e holds a failure
\* carrying e itself, and tasks of both variants for that name hold the same
\* failure.
C2_ErrorUnchanged ==
    \A t \in Tasks :
        (Done(t) /\ Answer(t).tag = "Err") =>
            /\ tasks[t].result.tag = "Err"
            /\ tasks[t].result.val.boxed = Answer(t).val
            /\ \A u \in Tasks :
                  (Done(u) /\ tasks[u].name = tasks[t].name) =>
                      tasks[u].result = tasks[t].result

\* both variants have completed a lookup of the same failing name
C2_Witness ==
    \E t \in Tasks, u \in Tasks :
        /\ tasks[t].variant = "A" /\ tasks[u].variant = "B"
        /\ Done(t) /\ Done(u)
        /\ tasks[t].name = tasks[u].name
        /\ Answer(t) = Err("timeout")
        /\ tasks[t].result.tag = "Err"

\* C3: a variant A task outlives its adapter: while it is pending the
\* resolver is still in memory, whether or not the adapter is, and when it
\* completes, also when polled after the adapter's drop, it holds the result
\* for its name.
C3_TaskOutlivesAdapter ==
    \A t \in Tasks :
        tasks[t].variant = "A" =>
            /\ Pending(t) => (dropsA = 0 /\ strong >= 1)
            /\ tasks[t].ready # None => tasks[t].ready = Answer(t)
            /\ Done(t) => Yields(tasks[t].result, Answer(t))

\* a task polled after the adapter's drop has completed with addresses while
\* another task is still pending
C3_Witness ==
    /\ ~aliveA
    /\ \E t \in Tasks, u \in Tasks :
          /\ tasks[t].variant = "A" /\ Done(t) /\ tasks[t].orphanPoll
          /\ tasks[t].result.tag = "Ok" /\ Len(tasks[t].result.val) = 2
          /\ tasks[u].variant = "A" /\ Pending(u)

\* C4: variant A tasks for different names do not interfere: each completed
\* task holds the result for its own name, so two completed tasks whose names
\* the resolver answers differently hold different results.
C4_NoInterference ==
    \A t \in Tasks, u \in Tasks :
        (/\ tasks[t].variant = "A" /\ tasks[u].variant = "A"
         /\ Done(t)) =>
            /\ Yields(tasks[t].result, Answer(t))
            /\ (Done(u) /\ Answer(t) # Answer(u)) =>
                  tasks[t].result # tasks[u].result

\* the second call has completed while the first still waits for its answer
C4_Witness ==
    /\ Len(tasks) >= 2
    /\ tasks[1].variant = "A" /\ tasks[2].variant = "A"
    /\ tasks[1].name # tasks[2].name
    /\ Answer(1) # Answer(2)
    /\ tasks[1].pc = "lookup_ip" /\ tasks[1].ready = None
    /\ Done(2) /\ tasks[2].result.tag = "Ok"

\* C5: a variant B task is never polled after its adapter was dropped, and
\* while it is pending the adapter and its resolver are alive.
C5_BorrowScoped ==
    \A t \in Tasks :
        tasks[t].variant = "B" =>
            /\ ~tasks[t].orphanPoll
            /\ Pending(t) => (aliveB /\ dropsB = 0)

\* the adapter was dropped after one of its tasks completed and another was dropped
C5_Witness ==
    /\ ~aliveB
    /\ \E t \in Tasks, u \in Tasks :
          /\ tasks[t].variant = "B" /\ Done(t)
          /\ tasks[u].variant = "B" /\ Dropped(u) /\ tasks[u].polled

\* what dropping the pending task t leaves alone
C6_Frame(t) ==
    /\ aliveA' = aliveA /\ aliveB' = aliveB
    /\ table' = table
    /\ dropsB' = dropsB
    /\ DOMAIN tasks' = DOMAIN tasks
    /\ \A u \in Tasks : u # t => tasks'[u] = tasks[u]
    /\ tasks'[t].result = None
    /\ (aliveA \/ PendingA \ {t} # {}) => dropsA' = dropsA

\* C6: dropping a pending task leaves the adapters, the resolver's answers
\* and every other task as they were and destroys no resolver another holder
\* still uses; a dropped task stays dropped without a result, and every
\* completed task holds the result for its own name.
C6_CancelFrame ==
    /\ [](\A t \in Tasks :
            /\ Dropped(t) => tasks[t].result = None
            /\ Done(t) => Yields(tasks[t].result, Answer(t)))
    /\ [][\A t \in Tasks :
            /\ drop_task(t) => C6_Frame(t)
            /\ Dropped(t) => tasks'[t] = tasks[t]]_vars

\* one task was cancelled while its lookup was in flight, another completed
C6_Witness ==
    \E t \in Tasks, u \in Tasks :
        /\ Dropped(t) /\ tasks[t].polled
        /\ Done(u) /\ tasks[u].result.tag = "Ok" /\ Len(tasks[u].result.val) > 0

\* C7: a task issues at most one lookup, exactly one once it has completed
\* (with addresses or with an error), and is suspended only at lookup_ip.
C7_OneLookup ==
    \A t \in Tasks :
        /\ tasks[t].lookups <= 1
        /\ Done(t) => tasks[t].lookups = 1
        /\ (tasks[t].polled /\ Pending(t)) =>
              (tasks[t].pc = "lookup_ip" /\ tasks[t].lookups = 1)

\* one task has completed with the resolver's error and one with addresses
C7_Witness ==
    \E t \in Tasks, u \in Tasks :
        /\ Done(t) /\ tasks[t].result.tag = "Err" /\ tasks[t].lookups = 1
        /\ Done(u) /\ tasks[u].result.tag = "Ok" /\ tasks[u].lookups = 1

\* C8: resolve issues no lookup: a task that was never polled has issued
\* none, also when it is dropped, and the lookups issued are at most as many
\* as the tasks polled.
C8_LazyLookup ==
    /\ \A t \in Tasks :
          ~tasks[t].polled => (tasks[t].lookups = 0 /\ tasks[t].pc \in {"start", "dropped"})
    /\ SumLookups(Len(tasks)) <= Cardinality({t \in Tasks : tasks[t].polled})

\* one task was dropped unpolled, another was polled
C8_Witness ==
    \E t \in Tasks, u \in Tasks :
        /\ Dropped(t) /\ ~tasks[t].polled /\ tasks[t].lookups = 0
        /\ tasks[u].polled /\ tasks[u].lookups = 1

\* C9: the Arc's holders are the live adapter and the pending variant A
\* tasks; the resolver is destroyed exactly when there is none, at most once;
\* a resolve call only adds a holder.
C9_ArcHolders ==
    /\ [](/\ strong = (IF aliveA THEN 1 ELSE 0) + Cardinality(PendingA)
          /\ dropsA = (IF strong = 0 THEN 1 ELSE 0))
    /\ [][(/\ Len(tasks') = Len(tasks) + 1
           /\ tasks'[Len(tasks')].variant = "A") =>
              /\ strong' = strong + 1
              /\ aliveA' = aliveA /\ dropsA' = dropsA /\ table' = table
              /\ SubSeq(tasks', 1, Len(tasks)) = tasks]_vars

\* the adapter is gone and a pending task is the only holder left
C9_Witness ==
    /\ ~aliveA /\ strong = 1 /\ dropsA = 0
    /\ \E t \in Tasks, u \in Tasks :
          /\ tasks[t].variant = "A" /\ Pending(t)
          /\ tasks[u].variant = "A" /\ Done(u)

\* C10: under fair polling and a resolver that answers, every task that is
\* not dropped completes; a completed task holds addresses or an error, and
\* stays as it completed.
C10_Termination ==
    /\ \A t \in 1..MaxTasks :
          (t \in Tasks) ~> (t \in Tasks /\ (Done(t) \/ Dropped(t)))
    /\ [](\A t \in Tasks : Done(t) <=> tasks[t].result.tag \in {"Ok", "Err"})
    /\ [][\A t \in Tasks : Done(t) => tasks'[t] = tasks[t]]_vars

\* a task of each variant has completed, one with addresses and one with an error
C10_Witness ==
    \E t \in Tasks, u \in Tasks :
        /\ tasks[t].variant = "A" /\ Done(t) /\ tasks[t].result.tag = "Ok"
        /\ tasks[u].variant = "B" /\ Done(u) /\ tasks[u].result.tag = "Err"

====
